---- MODULE Spec2Model ----
(***************************************************************************)
(* git-clean-gone (src/main.rs): the orchestration of the git subprocesses *)
(* by main and the parser of `git branch -vv` output.                      *)
(*                                                                         *)
(* A Rust String is modelled as a sequence of one-character strings, so    *)
(* that the regex search, lines() and split_whitespace() are computed      *)
(* character by character.  A subprocess is modelled by two steps: the     *)
(* spawn done by Command::status / Command::output, which can fail with an *)
(* io error, and the wait for its exit, whose status the environment       *)
(* chooses.                                                                *)
(***************************************************************************)
EXTENDS Integers, Sequences, FiniteSets, TLC

VARIABLES
    dry_run,        \* Args.dry_run
    verbose,        \* Args.verbose
    pc,             \* where main is: the function it is in, before or after the spawn
    calls,          \* the Commands main and its callees tried to spawn, in order
    results,        \* results[k]: how calls[k] ended
    running,        \* indices in calls of the subprocesses that have not exited
    stdout,         \* find_gone_branches: the decoded output of `git branch -vv`
    gone_branches,  \* main: the result of find_gone_branches
    exit_code,      \* exit code of the process, -1 while main runs
    printed         \* what main and find_gone_branches have printed

vars == <<dry_run, verbose, pc, calls, results, running, stdout,
          gone_branches, exit_code, printed>>

\* Number of lines of the `git branch -vv` listings the environment produces.
MaxLines == 2

(***************************************************************************)
(* Text of the branch listing.  The line shapes are those of the fixtures  *)
(* of the unit tests, plus a line without upstream annotation, a commit    *)
(* subject that itself contains ": gone]", and an empty line.              *)
(***************************************************************************)
Indent == <<" ", " ">>
CurrentMark == <<"*", " ">>
Sha == <<" ", "1", " ">>
Subject == <<" ", "m">>
SubjectGone == <<" ", "f", "i", "x", ":", " ", "g", "o", "n", "e", "]">>
SubjectOnly == <<"m">>
SubjectGoneOnly == <<"f", "i", "x", ":", " ", "g", "o", "n", "e", "]">>
UpOpen == <<"[", "o", "/">>
UpClose == <<"]">>
UpGone == <<":", " ", "g", "o", "n", "e", "]">>
UpAheadGone == <<":", " ", "a", "h", "e", "a", "d", " ", "2", ",", " ", "g", "o", "n", "e", "]">>
UpAheadBehindGone == <<":", " ", "a", "h", "e", "a", "d", " ", "1", ",", " ", "b", "e", "h", "i", "n", "d", " ", "2", ",", " ", "g", "o", "n", "e", "]">>
UpBehind == <<":", " ", "b", "e", "h", "i", "n", "d", " ", "3", "]">>

\* git lists every branch once: the line at position i carries its own name.
BranchNames == << <<"f", "/", "a">>, <<"b", "-", "1">>, <<"x", "/", "y", "/", "z">>, <<"m">> >>

BranchName(i) == BranchNames[((i - 1) % Len(BranchNames)) + 1]

LineShapes(n) ==
    << Indent \o n \o Sha \o UpOpen \o n \o UpGone \o Subject,
       CurrentMark \o n \o Sha \o UpOpen \o n \o UpGone \o Subject,
       Indent \o n \o Sha \o UpOpen \o n \o UpClose \o Subject,
       CurrentMark \o n \o Sha \o UpOpen \o n \o UpClose \o Subject,
       Indent \o n \o Sha \o UpOpen \o n \o UpAheadGone \o Subject,
       Indent \o n \o Sha \o UpOpen \o n \o UpAheadBehindGone \o Subject,
       Indent \o n \o Sha \o UpOpen \o n \o UpBehind \o Subject,
       Indent \o n \o Sha \o UpOpen \o n \o UpClose \o SubjectGone,
       Indent \o n \o Sha \o SubjectGoneOnly,
       Indent \o n \o Sha \o SubjectOnly,
       <<>> >>

RECURSIVE RenderFrom(_, _)
RenderFrom(f, i) ==
    IF i > Len(f) THEN <<>>
    ELSE LineShapes(BranchName(i))[f[i]] \o <<"\n">> \o RenderFrom(f, i + 1)

BranchListings ==
    { RenderFrom(f, 1) :
        f \in UNION { [1..k -> DOMAIN LineShapes(<<>>)] : k \in 0..MaxLines } }

(***************************************************************************)
(* parse_gone_branches and the library functions it uses.                  *)
(***************************************************************************)
IsWhitespace(c) == c \in {" ", "\t", "\n", "\r"}

\* str::lines(): the text split at "\n", a "\r" before the "\n" dropped, and
\* no empty last line after a final "\n".
StripCr(line) ==
    IF Len(line) > 0 /\ line[Len(line)] = "\r"
    THEN SubSeq(line, 1, Len(line) - 1)
    ELSE line

\* Index of the next "\n" at or after i, Len(text) + 1 when there is none.
NextNewline(text, i) ==
    LET nl == { j \in i..Len(text) : text[j] = "\n" }
    IN  IF nl = {} THEN Len(text) + 1
        ELSE CHOOSE x \in nl : \A y \in nl : x <= y

RECURSIVE LinesFrom(_, _)
LinesFrom(text, i) ==
    IF i > Len(text) THEN <<>>
    ELSE LET e == NextNewline(text, i)
         IN  <<IF e <= Len(text) THEN StripCr(SubSeq(text, i, e - 1))
               ELSE SubSeq(text, i, Len(text))>>
             \o LinesFrom(text, e + 1)

lines(text) == LinesFrom(text, 1)

\* Regex::new(r": gone]"): a literal, searched anywhere in the line.
GoneLiteral == <<":", " ", "g", "o", "n", "e", "]">>

\* Regex::is_match for a literal: some position of the haystack starts a match.
FindLiteral(hay, pat) ==
    \E i \in 1..(Len(hay) - Len(pat) + 1) : SubSeq(hay, i, i + Len(pat) - 1) = pat

gone_regex_is_match(line) == FindLiteral(line, GoneLiteral)

\* Regex::new(r"^\*"): the line's first character is '*'.
current_branch_regex_is_match(line) == Len(line) >= 1 /\ line[1] = "*"

\* Mutation: the filter on the current-branch line passes every line.
not_current_branch_skipped(line) == TRUE

not_current_branch(line) == ~current_branch_regex_is_match(line)

RECURSIVE SkipWhitespace(_, _)
SkipWhitespace(line, i) ==
    IF i > Len(line) THEN i
    ELSE IF IsWhitespace(line[i]) THEN SkipWhitespace(line, i + 1)
    ELSE i

RECURSIVE TokenEnd(_, _)
TokenEnd(line, i) ==
    IF i + 1 > Len(line) THEN i
    ELSE IF IsWhitespace(line[i + 1]) THEN i
    ELSE TokenEnd(line, i + 1)

\* line.split_whitespace().next(): <<>> stands for None (a token is never empty).
split_whitespace_next(line) ==
    LET s == SkipWhitespace(line, 1)
    IN  IF s > Len(line) THEN <<>> ELSE SubSeq(line, s, TokenEnd(line, s))

RECURSIVE FilterMapNames(_)
FilterMapNames(ls) ==
    IF ls = <<>> THEN <<>>
    ELSE LET t == split_whitespace_next(Head(ls))
         IN  (IF t = <<>> THEN <<>> ELSE <<t>>) \o FilterMapNames(Tail(ls))

parse_gone_branches(branch_output) ==
    FilterMapNames(
        SelectSeq(SelectSeq(lines(branch_output), gone_regex_is_match),
                  not_current_branch))

(***************************************************************************)
(* The subprocesses.  A call is one Command that main tried to spawn: the  *)
(* git subcommand, the branch names appended to it and the stdio set up    *)
(* for it, as a tuple.  results[k] is how calls[k] ended: "io_error" (it could not be  *)
(* spawned), "success" (exit status zero) or "failure" (non-zero).         *)
(***************************************************************************)
Call(cmd, branches, out, err) == <<cmd, branches, out, err>>

CallCmd(call) == call[1]

CallBranches(call) == call[2]

\* ExitStatus::success() or not.
ExitStatus(ok) == IF ok THEN "success" ELSE "failure"

\* Mutation: the exit status of `git rev-parse` is not looked at.
ensure_git_repo_result_unchecked(outcome) ==
    IF outcome = "io_error" THEN "Err" ELSE "Ok"

\* ensure_git_repo: the io error is propagated, a non-zero status bails.
ensure_git_repo_result(outcome) ==
    IF outcome = "io_error" THEN "Err"
    ELSE IF outcome # "success" THEN "Err"
    ELSE "Ok"

\* git_fetch_prune: only the io error is propagated; the exit status is dropped.
git_fetch_prune_result(outcome) ==
    IF outcome = "io_error" THEN "Err" ELSE "Ok"

git_fetch_prune_call(v) ==
    IF v THEN Call("fetch -ap", <<>>, "inherit", "inherit")
    ELSE Call("fetch -ap", <<>>, "null", "null")

\* find_gone_branches: io error, non-zero status and non-UTF-8 output are errors.
find_gone_branches_result(outcome, utf8) ==
    IF outcome = "io_error" THEN "Err"
    ELSE IF outcome # "success" THEN "Err"
    ELSE IF ~utf8 THEN "Err"
    ELSE "Ok"

\* Mutation: the first branch is left out of the arguments.
delete_branches_args_skip_first(branches) == Tail(branches)

\* delete_branches: `git branch -D` followed by every branch, in order.
delete_branches_args(branches) == branches

delete_branches_call(branches, v) ==
    Call("branch -D", delete_branches_args(branches), "inherit", "inherit")

\* Mutation: the exit status of `git branch -D` is not looked at.
delete_branches_result_unchecked(outcome) ==
    IF outcome = "io_error" THEN "Err" ELSE "Ok"

delete_branches_result(outcome) ==
    IF outcome = "io_error" THEN "Err"
    ELSE IF outcome # "success" THEN "Err"
    ELSE "Ok"

\* Mutation: the exit status of `git branch -a` is not looked at.
show_all_branches_result_unchecked(outcome) ==
    IF outcome = "io_error" THEN "Err" ELSE "Ok"

show_all_branches_result(outcome) ==
    IF outcome = "io_error" THEN "Err"
    ELSE IF outcome # "success" THEN "Err"
    ELSE "Ok"

\* Mutation: dry_run is not consulted before the deletion.
main_after_find_ignores_dry_run(gone, dry) ==
    IF gone = <<>> THEN "show_all_branches" ELSE "delete_branches"

\* main: the function called after `step` has returned Ok.
main_after_find(gone, dry) ==
    IF gone = <<>> THEN "show_all_branches"
    ELSE IF dry THEN "show_all_branches"
    ELSE "delete_branches"

\* Mutation: the branches are listed before the fetch.
main_next_lists_before_fetch(step, gone, dry) ==
    CASE step = "ensure_git_repo" -> "find_gone_branches"
      [] step = "find_gone_branches" -> "git_fetch_prune"
      [] step = "git_fetch_prune" ->
            IF gone = <<>> \/ dry THEN "show_all_branches" ELSE "delete_branches"
      [] step = "delete_branches" -> "show_all_branches"
      [] step = "show_all_branches" -> "done"

main_next(step, gone, dry) ==
    CASE step = "ensure_git_repo" -> "git_fetch_prune"
      [] step = "git_fetch_prune" -> "find_gone_branches"
      [] step = "find_gone_branches" -> main_after_find(gone, dry)
      [] step = "delete_branches" -> "show_all_branches"
      [] step = "show_all_branches" -> "done"

\* What main prints between the return of find_gone_branches and the next call.
RECURSIVE BranchItems(_)
BranchItems(gone) ==
    IF gone = <<>> THEN <<>> ELSE <<"  - {branch}">> \o BranchItems(Tail(gone))

main_report(gone, dry) ==
    IF gone = <<>> THEN <<"No gone branches found.">>
    ELSE <<"Found {} gone branch(es):">> \o BranchItems(gone)
         \o (IF dry THEN <<"[DRY RUN] Would delete {} branch(es)">>
             ELSE <<"Deleting gone branches...">>)

main_print_before(next) ==
    CASE next = "git_fetch_prune" -> <<"Fetching and pruning remote branches...">>
      [] next = "show_all_branches" -> <<"Remaining branches:">>
      [] OTHER -> <<>>

\* pc: the function main is in, before the spawn of its subprocess (the
\* function's name) or while the subprocess runs (Waiting).
At(step) == step

Waiting(step) ==
    CASE step = "ensure_git_repo" -> "ensure_git_repo.wait"
      [] step = "git_fetch_prune" -> "git_fetch_prune.wait"
      [] step = "find_gone_branches" -> "find_gone_branches.wait"
      [] step = "delete_branches" -> "delete_branches.wait"
      [] step = "show_all_branches" -> "show_all_branches.wait"

Done == "done"

\* `?` in main: an Err ends the process with exit code 1, Ok goes on.
Return(step, res, gone, out) ==
    IF res = "Err"
    THEN /\ pc' = Done
         /\ exit_code' = 1
         /\ printed' = printed \o out
    ELSE LET next == main_next(step, gone, dry_run)
         IN  /\ pc' = At(next)
             /\ exit_code' = IF next = "done" THEN 0 ELSE exit_code
             /\ printed' = printed \o out \o main_print_before(next)

\* Command::status / Command::output: the spawn.
Spawn(step, call, res_of_io_error) ==
    /\ pc = At(step)
    /\ calls' = Append(calls, call)
    /\ \/ /\ running' = running \cup {Len(calls) + 1}
          /\ pc' = Waiting(step)
          /\ UNCHANGED <<results, exit_code, printed>>
       \/ /\ results' = Append(results, "io_error")
          /\ Return(step, res_of_io_error, gone_branches, <<>>)
          /\ UNCHANGED running
    /\ UNCHANGED <<dry_run, verbose, stdout, gone_branches>>

Init ==
    /\ dry_run \in BOOLEAN
    /\ verbose \in BOOLEAN
    /\ pc = At("ensure_git_repo")
    /\ calls = <<>>
    /\ results = <<>>
    /\ running = {}
    /\ stdout = <<>>
    /\ gone_branches = <<>>
    /\ exit_code = -1
    /\ printed = <<>>

ensure_git_repo_spawn ==
    /\ pc = At("ensure_git_repo")
    /\ Spawn("ensure_git_repo", Call("rev-parse --git-dir", <<>>, "null", "null"),
          ensure_git_repo_result("io_error"))

ensure_git_repo_wait ==
    /\ pc = Waiting("ensure_git_repo")
    /\ \E ok \in BOOLEAN :
          /\ results' = Append(results, ExitStatus(ok))
          /\ Return("ensure_git_repo", ensure_git_repo_result(ExitStatus(ok)), gone_branches, <<>>)
    /\ running' = {}
    /\ UNCHANGED <<dry_run, verbose, calls, stdout, gone_branches>>

git_fetch_prune_spawn ==
    /\ pc = At("git_fetch_prune")
    /\ Spawn("git_fetch_prune", git_fetch_prune_call(verbose),
          git_fetch_prune_result("io_error"))

git_fetch_prune_wait ==
    /\ pc = Waiting("git_fetch_prune")
    /\ \E ok \in BOOLEAN :
          /\ results' = Append(results, ExitStatus(ok))
          /\ Return("git_fetch_prune", git_fetch_prune_result(ExitStatus(ok)), gone_branches, <<>>)
    /\ running' = {}
    /\ UNCHANGED <<dry_run, verbose, calls, stdout, gone_branches>>

find_gone_branches_spawn ==
    /\ pc = At("find_gone_branches")
    /\ Spawn("find_gone_branches", Call("branch -vv", <<>>, "piped", "piped"),
          find_gone_branches_result("io_error", TRUE))

find_gone_branches_wait ==
    /\ pc = Waiting("find_gone_branches")
    /\ \/ /\ results' = Append(results, "failure")
          /\ Return("find_gone_branches",
                    find_gone_branches_result("failure", TRUE), gone_branches, <<>>)
          /\ UNCHANGED <<stdout, gone_branches>>
       \/ /\ results' = Append(results, "success")
          /\ Return("find_gone_branches",
                    find_gone_branches_result("success", FALSE), gone_branches, <<>>)
          /\ UNCHANGED <<stdout, gone_branches>>
       \/ \E text \in BranchListings :
             LET gone == parse_gone_branches(text)
             IN  /\ results' = Append(results, "success")
                 /\ stdout' = text
                 /\ gone_branches' = gone
                 /\ Return("find_gone_branches",
                           find_gone_branches_result("success", TRUE), gone,
                           (IF verbose THEN <<"Branch output:", "{stdout}">> ELSE <<>>)
                             \o main_report(gone, dry_run))
    /\ running' = {}
    /\ UNCHANGED <<dry_run, verbose, calls>>

delete_branches_spawn ==
    IF gone_branches = <<>>
    THEN /\ pc = At("delete_branches")
         /\ Return("delete_branches", "Ok", gone_branches, <<>>)
         /\ UNCHANGED <<dry_run, verbose, calls, results, running, stdout, gone_branches>>
    ELSE /\ pc = At("delete_branches")
         /\ Spawn("delete_branches", delete_branches_call(gone_branches, verbose),
                  delete_branches_result("io_error"))

delete_branches_wait ==
    /\ pc = Waiting("delete_branches")
    /\ \E ok \in BOOLEAN :
          /\ results' = Append(results, ExitStatus(ok))
          /\ Return("delete_branches", delete_branches_result(ExitStatus(ok)), gone_branches, <<>>)
    /\ running' = {}
    /\ UNCHANGED <<dry_run, verbose, calls, stdout, gone_branches>>

show_all_branches_spawn ==
    /\ pc = At("show_all_branches")
    /\ Spawn("show_all_branches", Call("branch -a", <<>>, "inherit", "inherit"),
          show_all_branches_result("io_error"))

show_all_branches_wait ==
    /\ pc = Waiting("show_all_branches")
    /\ \E ok \in BOOLEAN :
          /\ results' = Append(results, ExitStatus(ok))
          /\ Return("show_all_branches", show_all_branches_result(ExitStatus(ok)), gone_branches, <<>>)
    /\ running' = {}
    /\ UNCHANGED <<dry_run, verbose, calls, stdout, gone_branches>>

Next ==
    \/ ensure_git_repo_spawn
    \/ ensure_git_repo_wait
    \/ git_fetch_prune_spawn
    \/ git_fetch_prune_wait
    \/ find_gone_branches_spawn
    \/ find_gone_branches_wait
    \/ delete_branches_spawn
    \/ delete_branches_wait
    \/ show_all_branches_spawn
    \/ show_all_branches_wait

Spec == Init /\ [][Next]_vars

(***************************************************************************)
(* Vocabulary of the properties.                                           *)
(***************************************************************************)
Range(s) == { s[i] : i \in DOMAIN s }

Cmd(k) == CallCmd(calls[k])

CallsOf(cmd) == { k \in DOMAIN calls : Cmd(k) = cmd }

StepOrder ==
    <<"rev-parse --git-dir", "fetch -ap", "branch -vv", "branch -D", "branch -a">>

Rank(cmd) == CHOOSE r \in DOMAIN StepOrder : StepOrder[r] = cmd

RECURSIVE WithoutDeletion(_)
WithoutDeletion(cs) ==
    IF cs = <<>> THEN <<>>
    ELSE (IF CallCmd(Head(cs)) = "branch -D" THEN <<>> ELSE <<CallCmd(Head(cs))>>)
         \o WithoutDeletion(Tail(cs))

ContainsAt(line, pat, i) ==
    /\ i + Len(pat) - 1 <= Len(line)
    /\ \A j \in 1..Len(pat) : line[i + j - 1] = pat[j]

Contains(line, pat) == \E i \in 1..Len(line) : ContainsAt(line, pat, i)

EndsWith(line, pat) ==
    Len(pat) <= Len(line) /\ ContainsAt(line, pat, Len(line) - Len(pat) + 1)

\* The line carries the marker ": gone]".
CarriesGoneMarker(line) ==
    Contains(line, <<":", " ", "g", "o", "n", "e", "]">>)

\* The line of the checked-out branch starts with '*'.
IsCurrentLine(line) == line # <<>> /\ Head(line) = "*"

\* tok is the first maximal run of non-whitespace characters of line.
IsFirstTokenOf(tok, line) ==
    LET black == { j \in 1..Len(line) : ~IsWhitespace(line[j]) }
    IN  /\ black # {}
        /\ tok # <<>>
        /\ \A j \in DOMAIN tok : ~IsWhitespace(tok[j])
        /\ LET s == CHOOSE x \in black : \A y \in black : x <= y
               e == s + Len(tok) - 1
           IN  /\ ContainsAt(line, tok, s)
               /\ e = Len(line) \/ IsWhitespace(line[e + 1])

\* The branch a listing line is about: its first token, after the '*' of
\* the current-branch line.
IsBranchOf(tok, line) ==
    IF IsCurrentLine(line) THEN IsFirstTokenOf(tok, Tail(line))
    ELSE IsFirstTokenOf(tok, line)

\* The upstream annotation of a line: from its first '[' to the next ']'.
AnnotationOf(line) ==
    LET opens == { p \in 1..Len(line) : line[p] = "[" }
    IN  IF opens = {} THEN <<>>
        ELSE LET p == CHOOSE x \in opens : \A y \in opens : x <= y
                 closes == { q \in (p + 1)..Len(line) : line[q] = "]" }
             IN  IF closes = {} THEN <<>>
                 ELSE SubSeq(line, p, CHOOSE x \in closes : \A y \in closes : x <= y)

AnnotationIsGone(line) == EndsWith(AnnotationOf(line), <<" ", "g", "o", "n", "e", "]">>)

AnnotationHasCounts(line) ==
    \/ Contains(AnnotationOf(line), <<"a", "h", "e", "a", "d", " ">>)
    \/ Contains(AnnotationOf(line), <<"b", "e", "h", "i", "n", "d", " ">>)

Returned(line) == \E k \in DOMAIN gone_branches : IsBranchOf(gone_branches[k], line)

QualifyingLines(L) ==
    { i \in DOMAIN L : CarriesGoneMarker(L[i]) /\ ~IsCurrentLine(L[i]) }

RankIn(Q, i) == Cardinality({ j \in Q : j <= i })

C2_CountsWithGoneIsGone ==
    \A i \in DOMAIN lines(stdout) :
        LET line == lines(stdout)[i]
        IN  (~IsCurrentLine(line) /\ AnnotationHasCounts(line))
                => (AnnotationIsGone(line) <=> Returned(line))

(***************************************************************************)
(* C3: a line is returned only if its bracketed upstream annotation says   *)
(* gone: never a line without annotation, never because of text outside    *)
(* the annotation.                                                         *)
(***************************************************************************)
C3_OnlyAnnotationDecides ==
    \A i \in DOMAIN lines(stdout) :
        LET line == lines(stdout)[i]
        IN  Returned(line) => AnnotationIsGone(line)

(***************************************************************************)
(* C4: with dry_run no `git branch -D` is ever called, and the other calls *)
(* of a run are those of a run without dry_run: a run that ends with exit  *)
(* code 0 has called, the deletion left aside, rev-parse, fetch,           *)
(* branch -vv and branch -a, in this order, whatever dry_run is.           *)
(***************************************************************************)
C4_DryRunSkipsOnlyDeletion ==
    /\ dry_run => CallsOf("branch -D") = {}
    /\ exit_code = 0 =>
          WithoutDeletion(calls) =
              <<"rev-parse --git-dir", "fetch -ap", "branch -vv", "branch -a">>
    /\ (dry_run /\ Len(calls) >= Len(StepOrder) - 1) =>
          Cmd(Len(StepOrder) - 1) = "branch -a"

C4_Witness ==
    /\ dry_run
    /\ exit_code = 0
    /\ Len(gone_branches) >= 2
    /\ "[DRY RUN] Would delete {} branch(es)" \in Range(printed)

(***************************************************************************)
(* C5: a fetch that exits with a non-zero status ends the run: it is the   *)
(* last call, and the exit code is not 0.                                  *)
(***************************************************************************)
C5_FetchFailureAborts ==
    \A k \in DOMAIN results :
        (Cmd(k) = "fetch -ap" /\ results[k] = "failure")
            => (pc = Done /\ exit_code # 0 /\ Len(calls) = k)

(***************************************************************************)
(* C6: when the validity check cannot be run or exits non-zero, the run is *)
(* over with exit code 1 and no other subprocess was started.              *)
(***************************************************************************)
C6_InvalidRepoAborts ==
    \A k \in DOMAIN results :
        (Cmd(k) = "rev-parse --git-dir" /\ results[k] # "success")
            => (pc = Done /\ exit_code = 1 /\ Len(calls) = 1 /\ running = {})

C6_Witness ==
    /\ results = <<"failure">>
    /\ Cmd(1) = "rev-parse --git-dir"
    /\ pc = Done

(***************************************************************************)
(* C7: when `git branch -D` exits non-zero the run is over with a non-zero *)
(* exit code; the deletion was called once and nothing was called after.   *)
(***************************************************************************)
C7_DeletionFailureAborts ==
    \A k \in DOMAIN results :
        (Cmd(k) = "branch -D" /\ results[k] = "failure")
            => /\ pc = Done
               /\ exit_code = 1
               /\ Len(calls) = k
               /\ Cardinality(CallsOf("branch -D")) = 1

C7_Witness ==
    \E k \in DOMAIN results :
        /\ Cmd(k) = "branch -D"
        /\ results[k] = "failure"
        /\ Len(CallBranches(calls[k])) >= 2

(***************************************************************************)
(* C8: a run ends with exit code 0 only after exactly one `git branch -a`, *)
(* its last call, has exited with status zero; `git branch -a` is never    *)
(* followed by another call; a finished run without it has exit code 1.    *)
(***************************************************************************)
C8_EndsWithOneFinalListing ==
    /\ exit_code = 0 =>
          /\ pc = Done
          /\ calls # <<>>
          /\ Cmd(Len(calls)) = "branch -a"
          /\ Len(results) = Len(calls)
          /\ results[Len(calls)] = "success"
    /\ Cardinality(CallsOf("branch -a")) <= 1
    /\ \A k \in CallsOf("branch -a") : k = Len(calls)
    /\ (pc = Done /\ CallsOf("branch -a") = {}) => exit_code = 1
    /\ pc = Done => exit_code \in {0, 1}

C8_Witness ==
    /\ exit_code = 0
    /\ CallsOf("branch -D") # {}
    /\ verbose

(***************************************************************************)
(* C9: the calls come in the order rev-parse, fetch, branch -vv,           *)
(* branch -D, branch -a, none twice, the first three never skipped; a call *)
(* is made only after the previous one has ended, so that at most one      *)
(* subprocess runs at any time.                                            *)
(***************************************************************************)
C9_FixedOrderOneAtATime ==
    /\ \A j, k \in DOMAIN calls : j < k => Rank(Cmd(j)) < Rank(Cmd(k))
    /\ \A k \in DOMAIN calls : k < Rank("branch -D") => Cmd(k) = StepOrder[k]
    /\ Cardinality(running) <= 1
    /\ running \subseteq {Len(calls)}
    /\ Len(results) = Len(calls) - Cardinality(running)

C9_Witness ==
    /\ Len(calls) = Len(StepOrder)
    /\ running = {Len(calls)}

(***************************************************************************)
(* C10: `git branch -D` is called at most once, only without dry_run and   *)
(* with a non-empty parser result, right after a successful branch -vv;    *)
(* its branch arguments are the parser's result for that listing, in the   *)
(* same order; the branch of the listing's current-branch line is not      *)
(* among them.                                                             *)
(***************************************************************************)
C10_DeletionArguments ==
    /\ Cardinality(CallsOf("branch -D")) <= 1
    /\ \A k \in CallsOf("branch -D") :
          /\ ~dry_run
          /\ CallBranches(calls[k]) # <<>>
          /\ CallBranches(calls[k]) = parse_gone_branches(stdout)
          /\ k > 1 /\ Cmd(k - 1) = "branch -vv" /\ results[k - 1] = "success"
          /\ \A i \in DOMAIN lines(stdout) :
                LET line == lines(stdout)[i]
                IN  IsCurrentLine(line) =>
                        \A b \in Range(CallBranches(calls[k])) : ~IsBranchOf(b, line)
    /\ \A k \in DOMAIN calls : Cmd(k) # "branch -D" => CallBranches(calls[k]) = <<>>

C10_Witness ==
    \E k \in CallsOf("branch -D") :
        /\ Len(CallBranches(calls[k])) >= 1
        /\ \E i \in DOMAIN lines(stdout) :
              LET line == lines(stdout)[i]
              IN  IsCurrentLine(line) /\ CarriesGoneMarker(line)

====
